---------------------------- MODULE Spec2Model ----------------------------
(***************************************************************************)
(* Model of wkflws_dbm/cache.py: a TTL cache over a GNU dbm file, and of   *)
(* wkflws_dbm/set.py, which validates a request and calls cache.set.       *)
(*                                                                         *)
(* Every public coroutine (get, set, list, clean) runs on an asyncio event *)
(* loop thread, hands its blocking store work to an executor worker thread *)
(* and is resumed by the loop once the worker has returned.  set and clean *)
(* wrap the hand-off in `with _WRITE_LOCK`, a threading.Lock: acquiring it *)
(* blocks the calling thread, that is the event loop itself.               *)
(*                                                                         *)
(* Python objects are records [ty, f]: ty is the type, f the items (a dict *)
(* maps item names to integers, an int holds its number under "n").        *)
(* Stored bytes are sequences of integers produced by pickle_dumps.        *)
(***************************************************************************)
EXTENDS Integers, Sequences, FiniteSets, TLC

\* ------------------------------------------------------------- bounds
NTasks    == 3      \* calls issued as concurrent tasks
NCalls    == 2      \* calls a caller makes one after the other
MaxTicks  == 1      \* seconds that pass during the run
StartTime == 10     \* epoch() when the process starts

Tasks == 1..NTasks
Loops == {"loopA", "loopB"}                \* event loops (one thread each)
Paths == {"/tmp/a.dbm", "/tmp/b.dbm"}      \* db_path arguments
Keys  == {"k1", "k2"}                      \* key arguments
TTLs  == {0, 1}                            \* expiry_secs arguments
\* older_than_ts arguments: None (taken as now), or a time after every expiry
Cutoffs == {0, StartTime + MaxTicks + 2}
NoKey  == "None"                           \* firstkey()/nextkey() at the end
NoTask == 0

\* ------------------------------------------------------ python objects
EmptyF == [a \in {} |-> 0]
PyNone == [ty |-> "none", f |-> EmptyF]
PyInt(n) == [ty |-> "int", f |-> [a \in {"n"} |-> n]]
PyDict(items) == [ty |-> "dict", f |-> items]
PyStr(n) == [ty |-> "str", f |-> [a \in {"n"} |-> n]]
\* default arguments of get: None (the parameter's default), or 0
Defaults == {PyNone, PyInt(0)}
\* a lambda: pickle.dumps raises on it
PyFunc == [ty |-> "function", f |-> EmptyF]

ItemOrder == <<"exp", "v", "x", "n">>
TypeOrder == <<"none", "int", "dict", "str">>

IndexOf(seq, e) == CHOOSE i \in 1..Len(seq) : seq[i] = e

\* the objects pickle.dumps encodes without raising
picklable(o) == \E i \in 1..Len(TypeOrder) : TypeOrder[i] = o.ty

\* pickle.dumps: a type byte, then for each item name a presence byte and
\* the item's number.
pickle_dumps(o) ==
    <<IndexOf(TypeOrder, o.ty)>> \o
    [i \in 1..(2 * Len(ItemOrder)) |->
        LET name == ItemOrder[(i + 1) \div 2] IN
        IF i % 2 = 1
        THEN (IF name \in DOMAIN o.f THEN 1 ELSE 0)
        ELSE (IF name \in DOMAIN o.f THEN o.f[name] ELSE 0)]

\* pickle.loads: the inverse reading of those bytes.
pickle_loads(b) ==
    LET present == {i \in 1..Len(ItemOrder) : b[2 * i] = 1}
        names   == {ItemOrder[i] : i \in present}
    IN  [ty |-> TypeOrder[b[1]],
         f  |-> [a \in names |-> b[2 * IndexOf(ItemOrder, a) + 1]]]

\* ---------------------------------------------------- the store engine
EmptyDb == [k \in {} |-> <<>>]
NoFile  == [exists |-> FALSE, data |-> EmptyDb]
File(d) == [exists |-> TRUE, data |-> d]

\* a store that inserts only (gdbm_store with GDBM_INSERT): a key that is
\* stored keeps its bytes
db_put_insert_only(d, k, bytes) ==
    [x \in (DOMAIN d) \cup {k} |-> IF x \in DOMAIN d THEN d[x] ELSE bytes]

\* `db[key] = bytes`: the key's bytes are replaced
db_put(d, k, bytes) ==
    [x \in (DOMAIN d) \cup {k} |-> IF x = k THEN bytes ELSE d[x]]
db_del(d, k) == [x \in (DOMAIN d) \ {k} |-> d[x]]
\* db.get(k): the bytes, or None (the empty sequence here)
db_get(d, k) == IF k \in DOMAIN d THEN d[k] ELSE <<>>

Perms(S) == {s \in [1..Cardinality(S) -> S] : \A i, j \in 1..Cardinality(S) : s[i] = s[j] => i = j}

\* the first key at or after position i of the engine's order that is stored
KeyFrom(d, ord, i) ==
    LET later == {j \in i..Len(ord) : ord[j] \in DOMAIN d}
    IN  IF later = {} THEN NoKey
        ELSE ord[CHOOSE j \in later : \A m \in later : j <= m]

firstkey(d, ord) == KeyFrom(d, ord, 1)
\* gdbm_nextkey looks the given key up first: a key that is no longer
\* stored has no successor.
nextkey(d, ord, k) ==
    IF k \notin DOMAIN d THEN NoKey ELSE KeyFrom(d, ord, IndexOf(ord, k) + 1)

\* ------------------------------------------------------------- state
VARIABLES
    now,      \* epoch()
    store,    \* [Paths -> file]: the dbm files on disk
    lock,     \* _WRITE_LOCK: the task holding it, or NoTask
    blocked,  \* [Loops -> task whose lock.acquire() blocks the loop thread]
    call,     \* [Tasks -> the call's arguments, position and outcome]
    hist      \* tasks in the order their store mutations were applied

vars == <<now, store, lock, blocked, call, hist>>

Pending == [kind |-> "pending", val |-> PyNone]
Return(o) == [kind |-> "return", val |-> o]
Raise(e)  == [kind |-> "raise:" \o e, val |-> PyNone]

\* the request of a call made through set.py: the parameters it has, and
\* their values (filename as its characters); NoMsg for a direct call
Fields == {"filename", "key", "value", "expiry_secs"}
NoMsg ==
    [has |-> {}, filename |-> <<>>, key |-> "", value |-> PyNone, expiry_secs |-> PyNone]

IdleCall ==
    [op |-> "none", loop |-> "loopA", path |-> "/tmp/a.dbm", key |-> "k1",
     ttl |-> 0, raise |-> FALSE, dflt |-> PyNone, cutoff |-> 0, pc |-> "idle", t0 |-> 0, ser |-> <<>>, raw |-> <<>>,
     werr |-> "", seen |-> 0, out |-> <<>>, res |-> Pending, msg |-> NoMsg]

\* the store left behind by earlier runs of the process: an entry that
\* expires as the process starts, one that expires a second later, and two
\* entries written in the older format (a dict with no "exp"/"v", and a
\* bare string)
Populated ==
    [p \in Paths |->
        IF p = "/tmp/a.dbm"
        THEN File([k \in Keys |->
                pickle_dumps(PyDict([a \in {"exp", "v"} |->
                    IF a = "v" THEN (IF k = "k1" THEN 7 ELSE 8)
                    ELSE (IF k = "k1" THEN StartTime ELSE StartTime + 1)]))])
        ELSE File([k \in Keys |->
                IF k = "k1" THEN pickle_dumps(PyDict([a \in {"x"} |-> 9]))
                ELSE pickle_dumps(PyStr(9))])]

\* a store holding one entry that never expires
Eternal ==
    [p \in Paths |->
        IF p = "/tmp/a.dbm"
        THEN File([k \in {"k1"} |->
                pickle_dumps(PyDict([a \in {"exp", "v"} |-> IF a = "v" THEN 7 ELSE 0]))])
        ELSE NoFile]

InitStores == {[p \in Paths |-> NoFile], Populated, Eternal}

Init ==
    /\ now = StartTime
    /\ store \in InitStores
    /\ lock = NoTask
    /\ blocked = [l \in Loops |-> NoTask]
    /\ call = [t \in Tasks |-> IdleCall]
    /\ hist = <<>>

\* ------------------------------------------------------------ helpers
epoch == now

IsWriter(t) == call[t].op \in {"set", "clean"}
IsReader(t) == call[t].op \in {"get", "list"}

\* a task may take a step on its event loop only if no lock.acquire() of
\* another coroutine is blocking that loop's thread
LoopRuns(l) == blocked[l] = NoTask

\* the first call is made on the main thread's loop, the later ones on the
\* loop of a second thread
LoopOf(t) == IF t = 1 THEN "loopA" ELSE "loopB"

\* calls are issued in task order
MayIssue(t) ==
    /\ call[t].pc = "idle"
    /\ IF t = 1 THEN TRUE ELSE call[t - 1].pc # "idle"

\* a `with` block that takes the lock whether or not it is held
lock_enter_unguarded(t, c) ==
    /\ lock' = t
    /\ call' = [call EXCEPT ![t] = [c EXCEPT !.pc = "submitted"]]
    /\ UNCHANGED blocked

\* `with _WRITE_LOCK:` entered by task t whose call record is c
lock_enter(t, c) ==
    IF lock = NoTask
    THEN /\ lock' = t
         /\ call' = [call EXCEPT ![t] = [c EXCEPT !.pc = "submitted"]]
         /\ UNCHANGED blocked
    ELSE /\ call' = [call EXCEPT ![t] = [c EXCEPT !.pc = "lockwait"]]
         /\ blocked' = [blocked EXCEPT ![c.loop] = t]
         /\ UNCHANGED lock

\* ---------------------------------------------------------------- get
\* get() up to `await loop.run_in_executor(None, read_value, key)`
GetCall(t, p, k, r, d) ==
    /\ MayIssue(t) /\ LoopRuns(LoopOf(t))
    /\ call' = [call EXCEPT ![t] =
            [IdleCall EXCEPT !.op = "get", !.loop = LoopOf(t), !.path = p, !.key = k,
                             !.raise = r, !.dflt = d, !.pc = "submitted"]]
    /\ UNCHANGED <<now, store, lock, blocked, hist>>

\* a read_value that opens the file the way the writers do ("c": create)
ReadValue_creating(t, busy) ==
    /\ call[t].op = "get" /\ call[t].pc = "submitted"
    /\ call' = [call EXCEPT ![t] =
            IF busy
            THEN [@ EXCEPT !.pc = "returned", !.werr = "gdbm.error"]
            ELSE [@ EXCEPT !.pc = "returned", !.seen = Len(hist),
                           !.raw = db_get(store[call[t].path].data, call[t].key)]]
    /\ store' = [store EXCEPT ![call[t].path] = File(@.data)]
    /\ UNCHANGED <<now, lock, blocked, hist>>

\* a read_value that removes the entry it read
ReadValue_popping(t, busy) ==
    /\ call[t].op = "get" /\ call[t].pc = "submitted"
    /\ call' = [call EXCEPT ![t] =
            IF ~store[call[t].path].exists
            THEN [@ EXCEPT !.pc = "returned", !.raw = <<>>, !.seen = Len(hist)]
            ELSE IF busy
            THEN [@ EXCEPT !.pc = "returned", !.werr = "gdbm.error"]
            ELSE [@ EXCEPT !.pc = "returned", !.seen = Len(hist),
                           !.raw = db_get(store[call[t].path].data, call[t].key)]]
    /\ store' = IF store[call[t].path].exists /\ ~busy
                THEN [store EXCEPT ![call[t].path] = File(db_del(@.data, call[t].key))]
                ELSE store
    /\ UNCHANGED <<now, lock, blocked, hist>>

\* read_value on a worker thread: os.path.exists, dbm.open(db_path, "rf"),
\* db.get(_k).  The open fails while another handle holds the file's lock.
ReadValue(t, busy) ==
    /\ call[t].op = "get" /\ call[t].pc = "submitted"
    /\ call' = [call EXCEPT ![t] =
            IF ~store[call[t].path].exists
            THEN [@ EXCEPT !.pc = "returned", !.raw = <<>>, !.seen = Len(hist)]
            ELSE IF busy
            THEN [@ EXCEPT !.pc = "returned", !.werr = "gdbm.error"]
            ELSE [@ EXCEPT !.pc = "returned", !.seen = Len(hist),
                           !.raw = db_get(store[call[t].path].data, call[t].key)]]
    /\ UNCHANGED <<now, store, lock, blocked, hist>>

\* an expiry test that keeps an entry alive through its expiry second
is_expired_late(payload, ts) ==
    /\ "exp" \in DOMAIN payload.f
    /\ payload.f["exp"] # 0
    /\ ts > payload.f["exp"]

\* `payload.get("exp", 0) and epoch() >= payload["exp"]`
is_expired(payload, ts) ==
    /\ "exp" \in DOMAIN payload.f
    /\ payload.f["exp"] # 0
    /\ ts >= payload.f["exp"]

\* a get() that reports an expired entry the way it reports an absent one
get_result_expired_raises(c, ts) ==
    IF c.werr # "" THEN Raise(c.werr)
    ELSE IF c.raw = <<>>
    THEN Raise("CacheKeyNotFoundError")
    ELSE LET payload == pickle_loads(c.raw) IN
         IF payload.ty # "dict" THEN Raise("AttributeError")
         ELSE IF is_expired(payload, ts) THEN Raise("CacheKeyNotFoundError")
         ELSE IF "v" \in DOMAIN payload.f THEN Return(PyInt(payload.f["v"]))
         ELSE Return(payload)

\* what get() returns or raises once the worker's value is back
get_result(c, ts) ==
    IF c.werr # "" THEN Raise(c.werr)
    ELSE IF c.raw = <<>>
    THEN (IF c.raise THEN Raise("CacheKeyNotFoundError") ELSE Return(c.dflt))
    ELSE LET payload == pickle_loads(c.raw) IN
         IF payload.ty # "dict" THEN Raise("AttributeError")
         ELSE IF is_expired(payload, ts) THEN Return(c.dflt)
         ELSE IF "v" \in DOMAIN payload.f THEN Return(PyInt(payload.f["v"]))
         ELSE Return(payload)

\* get() after the await
GetFinish(t) ==
    /\ call[t].op = "get" /\ call[t].pc = "returned"
    /\ LoopRuns(call[t].loop)
    /\ call' = [call EXCEPT ![t] =
            [@ EXCEPT !.pc = "done", !.t0 = epoch, !.res = get_result(call[t], epoch)]]
    /\ UNCHANGED <<now, store, lock, blocked, hist>>

\* ---------------------------------------------------------------- set
\* a payload that expires as it is written
set_payload_no_ttl(ts, ttl, value) ==
    PyDict([a \in {"exp", "v"} |-> IF a = "exp" THEN ts ELSE value])

\* the payload set() builds: {"exp": epoch() + expiry_secs, "v": value}
set_payload(ts, ttl, value) ==
    PyDict([a \in {"exp", "v"} |-> IF a = "exp" THEN ts + ttl ELSE value])

\* the values task t passes to set(): the number t, or a lambda
Values(t) == {PyInt(t), PyFunc}

\* the call record of a set() whose payload was or was not encoded
set_record(t, p, k, ttl, value) ==
    [IdleCall EXCEPT !.op = "set", !.loop = LoopOf(t), !.path = p,
                     !.key = k, !.ttl = ttl, !.t0 = epoch,
                     !.ser = IF picklable(value)
                             THEN pickle_dumps(set_payload(epoch, ttl, value.f["n"]))
                             ELSE <<>>]

\* a set() that enters `with _WRITE_LOCK` and opens the store before it
\* encodes the payload
SetCall_write_first(t, p, k, ttl, value) ==
    /\ MayIssue(t) /\ LoopRuns(LoopOf(t))
    /\ IF picklable(value)
       THEN /\ lock_enter(t, set_record(t, p, k, ttl, value))
            /\ UNCHANGED store
       ELSE /\ call' = [call EXCEPT ![t] =
                    [set_record(t, p, k, ttl, value) EXCEPT
                        !.pc = "done", !.res = Raise("CacheError")]]
            /\ store' = [store EXCEPT ![p] = File(@.data)]
            /\ UNCHANGED <<lock, blocked>>
    /\ UNCHANGED <<now, hist>>

\* the body of set() up to the await inside `with _WRITE_LOCK`, for the
\* call record c: a payload that could not be encoded raises CacheError
\* before the lock is touched
set_begin(t, c) ==
    IF c.ser # <<>>
    THEN lock_enter(t, c)
    ELSE /\ call' = [call EXCEPT ![t] = [c EXCEPT !.pc = "done", !.res = Raise("CacheError")]]
         /\ UNCHANGED <<lock, blocked>>

\* cache.set(p, k, value, expiry_secs = ttl) called by task t
SetCall(t, p, k, ttl, value) ==
    /\ MayIssue(t) /\ LoopRuns(LoopOf(t))
    /\ set_begin(t, set_record(t, p, k, ttl, value))
    /\ UNCHANGED <<now, store, hist>>

\* ------------------------------------------------------------- set.py
\* the requests task t passes to set.py
Filenames == {<<"a">>, <<"b">>, <<"a", "/", "b">>, <<"a", ".", "b">>, <<"a", "\\", "b">>}
Messages(t) ==
    {[has         |-> h,
      filename    |-> IF "filename" \in h THEN fn ELSE <<>>,
      key         |-> IF "key" \in h THEN "k1" ELSE "",
      value       |-> IF "value" \in h THEN PyInt(t) ELSE PyNone,
      expiry_secs |-> IF "expiry_secs" \in h THEN e ELSE PyNone] :
        h \in {Fields} \cup {Fields \ {f} : f \in Fields},
        fn \in Filenames,
        e \in {PyInt(1), PyNone}}

\* `c in filename`
contains(filename, c) == \E i \in 1..Len(filename) : filename[i] = c

\* os.path.join("/tmp", f"{filename}.dbm")
RECURSIVE join(_)
join(cs) == IF cs = <<>> THEN "" ELSE Head(cs) \o join(Tail(cs))
db_path(filename) == "/tmp/" \o join(filename) \o ".dbm"

\* message.get("expiry_secs", 300)
expiry_arg(msg) == IF "expiry_secs" \in msg.has THEN msg.expiry_secs ELSE PyInt(300)

\* a validation that reads the key with message.get("key")
wrapper_error_key_optional(msg) ==
    IF "filename" \notin msg.has THEN "ValueError"
    ELSE IF contains(msg.filename, "/") \/ contains(msg.filename, "\\")
            \/ contains(msg.filename, ".") THEN "ValueError"
    ELSE IF "value" \notin msg.has THEN "ValueError"
    ELSE IF expiry_arg(msg).ty # "int" THEN "TypeError"
    ELSE ""

\* the error set.py raises before it calls cache.set ("": none), in the
\* order of its tests; int(None) raises TypeError
wrapper_error(msg) ==
    IF "filename" \notin msg.has THEN "ValueError"
    ELSE IF contains(msg.filename, "/") \/ contains(msg.filename, "\\")
            \/ contains(msg.filename, ".") THEN "ValueError"
    ELSE IF "key" \notin msg.has THEN "ValueError"
    ELSE IF "value" \notin msg.has THEN "ValueError"
    ELSE IF expiry_arg(msg).ty # "int" THEN "TypeError"
    ELSE ""

\* set.set(message, context) up to the await inside cache.set
WrapperCall(t, msg) ==
    /\ MayIssue(t) /\ LoopRuns(LoopOf(t))
    /\ IF wrapper_error(msg) # ""
       THEN /\ call' = [call EXCEPT ![t] =
                    [IdleCall EXCEPT !.loop = LoopOf(t), !.msg = msg, !.t0 = epoch,
                                     !.pc = "done", !.res = Raise(wrapper_error(msg))]]
            /\ UNCHANGED <<lock, blocked>>
       ELSE set_begin(t, [set_record(t, db_path(msg.filename), msg.key,
                                     expiry_arg(msg).f["n"], msg.value)
                             EXCEPT !.msg = msg])
    /\ UNCHANGED <<now, store, hist>>

\* ---------------------------------------------------------- set, clean

\* a blocked lock.acquire() returns once the lock is free
LockGranted(t) ==
    /\ call[t].pc = "lockwait" /\ lock = NoTask
    /\ lock' = t
    /\ blocked' = [blocked EXCEPT ![call[t].loop] = NoTask]
    /\ call' = [call EXCEPT ![t] = [@ EXCEPT !.pc = "submitted"]]
    /\ UNCHANGED <<now, store, hist>>

\* a write_value that opens with flag "n": always a new, empty database
WriteValue_truncating(t, busy, fault) ==
    /\ call[t].op = "set" /\ call[t].pc = "submitted"
    /\ IF busy /\ store[call[t].path].exists
       THEN /\ call' = [call EXCEPT ![t] = [@ EXCEPT !.pc = "returned", !.werr = "gdbm.error"]]
            /\ UNCHANGED <<store, hist>>
       ELSE IF fault
       THEN /\ store' = [store EXCEPT ![call[t].path] = File(EmptyDb)]
            /\ call' = [call EXCEPT ![t] = [@ EXCEPT !.pc = "returned", !.werr = "CacheError"]]
            /\ UNCHANGED hist
       ELSE /\ store' = [store EXCEPT ![call[t].path] =
                    File(db_put(EmptyDb, call[t].key, call[t].ser))]
            /\ hist' = Append(hist, t)
            /\ call' = [call EXCEPT ![t] = [@ EXCEPT !.pc = "returned"]]
    /\ UNCHANGED <<now, lock, blocked>>

\* write_value on a worker thread: dbm.open(db_path, "cs") creates the file,
\* then `db[key] = _v`.  The open fails while another handle holds the
\* file's lock, and its error leaves write_value as it is; a put that the
\* engine refuses (fault) is re-raised as CacheError.
WriteValue(t, busy, fault) ==
    /\ call[t].op = "set" /\ call[t].pc = "submitted"
    /\ IF busy /\ store[call[t].path].exists
       THEN /\ call' = [call EXCEPT ![t] = [@ EXCEPT !.pc = "returned", !.werr = "gdbm.error"]]
            /\ UNCHANGED <<store, hist>>
       ELSE IF fault
       THEN /\ store' = [store EXCEPT ![call[t].path] = File(@.data)]
            /\ call' = [call EXCEPT ![t] = [@ EXCEPT !.pc = "returned", !.werr = "CacheError"]]
            /\ UNCHANGED hist
       ELSE /\ store' = [store EXCEPT ![call[t].path] =
                    File(db_put(@.data, call[t].key, call[t].ser))]
            /\ hist' = Append(hist, t)
            /\ call' = [call EXCEPT ![t] = [@ EXCEPT !.pc = "returned"]]
    /\ UNCHANGED <<now, lock, blocked>>

\* what set() or clean() leaves its caller with: the worker's error, or
\* None, which set.py follows with `return value`
writer_result(c) ==
    IF c.werr # "" THEN Raise(c.werr)
    ELSE IF c.msg # NoMsg THEN Return(c.msg.value)
    ELSE Return(PyNone)

\* a hand-written acquire()/release() pair with no try/finally: an
\* exception of the worker skips the release
WriteFinish_no_finally(t) ==
    /\ IsWriter(t) /\ call[t].pc = "returned"
    /\ LoopRuns(call[t].loop)
    /\ lock' = IF call[t].werr # "" THEN lock ELSE NoTask
    /\ call' = [call EXCEPT ![t] =
            [@ EXCEPT !.pc = "done", !.res = writer_result(call[t])]]
    /\ UNCHANGED <<now, store, blocked, hist>>

\* set() / clean() after the await: leaving `with _WRITE_LOCK` releases the
\* lock, whether the worker returned or raised
WriteFinish(t) ==
    /\ IsWriter(t) /\ call[t].pc = "returned"
    /\ LoopRuns(call[t].loop)
    /\ lock' = NoTask
    /\ call' = [call EXCEPT ![t] =
            [@ EXCEPT !.pc = "done", !.res = writer_result(call[t])]]
    /\ UNCHANGED <<now, store, blocked, hist>>

\* --------------------------------------------------------------- list
ListCall(t, p) ==
    /\ MayIssue(t) /\ LoopRuns(LoopOf(t))
    /\ call' = [call EXCEPT ![t] =
            [IdleCall EXCEPT !.op = "list", !.loop = LoopOf(t), !.path = p,
                             !.pc = "submitted"]]
    /\ UNCHANGED <<now, store, lock, blocked, hist>>

\* the keys list_db prints, walking firstkey()/nextkey()
RECURSIVE list_walk(_, _, _)
list_walk(d, ord, k) ==
    IF k = NoKey THEN <<>> ELSE <<k>> \o list_walk(d, ord, nextkey(d, ord, k))

\* list_db on a worker thread: dbm.open(db_path, "rf") with no existence
\* test, then the walk in the engine's key order
ListDb(t, busy) ==
    /\ call[t].op = "list" /\ call[t].pc = "submitted"
    /\ \E ord \in Perms(Keys) :
         LET d == store[call[t].path].data IN
         call' = [call EXCEPT ![t] =
            IF ~store[call[t].path].exists \/ busy
            THEN [@ EXCEPT !.pc = "returned", !.werr = "gdbm.error"]
            ELSE [@ EXCEPT !.pc = "returned", !.seen = Len(hist),
                           !.out = list_walk(d, ord, firstkey(d, ord))]]
    /\ UNCHANGED <<now, store, lock, blocked, hist>>

ListFinish(t) ==
    /\ call[t].op = "list" /\ call[t].pc = "returned"
    /\ LoopRuns(call[t].loop)
    /\ call' = [call EXCEPT ![t] =
            [@ EXCEPT !.pc = "done",
                      !.res = IF call[t].werr # "" THEN Raise(call[t].werr)
                              ELSE Return(PyNone)]]
    /\ UNCHANGED <<now, store, lock, blocked, hist>>

\* -------------------------------------------------------------- clean
\* `if not older_than_ts: older_than_ts = epoch()`
clean_cutoff(c, ts) == IF c = 0 THEN ts ELSE c

CleanCall(t, p, c) ==
    /\ MayIssue(t) /\ LoopRuns(LoopOf(t))
    /\ lock_enter(t, [IdleCall EXCEPT !.op = "clean", !.loop = LoopOf(t), !.path = p,
                        !.cutoff = clean_cutoff(c, epoch), !.t0 = epoch])
    /\ UNCHANGED <<now, store, hist>>

\* `v.get("exp", 0) and older_than_ts > v["exp"]`
is_stale(v, cutoff) ==
    /\ "exp" \in DOMAIN v.f
    /\ v.f["exp"] # 0
    /\ cutoff > v.f["exp"]

\* the sweep of clean_db from key k on: the data left and the error raised
RECURSIVE clean_walk(_, _, _, _)
clean_walk(d, ord, k, cutoff) ==
    IF k = NoKey THEN [data |-> d, err |-> ""]
    ELSE LET v == pickle_loads(d[k]) IN
         IF v.ty # "dict" THEN [data |-> d, err |-> "AttributeError"]
         ELSE LET d2 == IF is_stale(v, cutoff) THEN db_del(d, k) ELSE d
              IN  clean_walk(d2, ord, nextkey(d2, ord, k), cutoff)

\* clean_db on a worker thread: dbm.open(db_path, "cs") creates the file,
\* then the sweep in the engine's key order, then db.reorganize() when
\* compact is set (it changes no key and no payload; fault: it raises)
CleanDb(t, busy, fault) ==
    /\ call[t].op = "clean" /\ call[t].pc = "submitted"
    /\ IF busy /\ store[call[t].path].exists
       THEN /\ call' = [call EXCEPT ![t] = [@ EXCEPT !.pc = "returned", !.werr = "gdbm.error"]]
            /\ UNCHANGED <<store, hist>>
       ELSE /\ \E ord \in Perms(Keys) :
                 LET d == store[call[t].path].data
                     r == clean_walk(d, ord, firstkey(d, ord), call[t].cutoff)
                 IN  /\ store' = [store EXCEPT ![call[t].path] = File(r.data)]
                     /\ call' = [call EXCEPT ![t] =
                            [@ EXCEPT !.pc = "returned",
                                      !.werr = IF r.err = "" /\ fault THEN "gdbm.error"
                                               ELSE r.err]]
            /\ hist' = Append(hist, t)
    /\ UNCHANGED <<now, lock, blocked>>

\* -------------------------------------------------------------- clock
Tick ==
    /\ now < StartTime + MaxTicks
    /\ now' = now + 1
    /\ UNCHANGED <<store, lock, blocked, call, hist>>

\* ---------------------------------------------------------------- spec
\* a worker thread runs the job of task t; the engine may find the file
\* held by another handle (busy) and may refuse a put or a reorganize
\* (a fault drawn from faults)
Work(t, faults) ==
    \E busy \in BOOLEAN :
        \/ ReadValue(t, busy)
        \/ ListDb(t, busy)
        \/ \E fault \in faults : WriteValue(t, busy, fault) \/ CleanDb(t, busy, fault)

Finish(t) == GetFinish(t) \/ WriteFinish(t) \/ ListFinish(t)

\* a call with arguments drawn from the given sets
Issue(t, ttls, raises, cutoffs, types, dflts) ==
    \E p \in Paths :
        \/ \E k \in Keys, r \in raises, d \in dflts : GetCall(t, p, k, r, d)
        \/ \E k \in Keys, ttl \in ttls, v \in {x \in Values(t) : x.ty \in types} :
                SetCall(t, p, k, ttl, v)
        \/ ListCall(t, p)
        \/ \E c \in cutoffs : CleanCall(t, p, c)

\* no call is in flight
Quiet == \A t \in Tasks : call[t].pc \in {"idle", "done"}

\* The calls run as concurrent tasks (asyncio.gather, create_task): a call
\* may be issued while earlier ones are in flight.
Next ==
    \E t \in Tasks :
        \/ Issue(t, {1}, {FALSE}, {0}, {"int"}, {PyNone})
        \/ Work(t, {FALSE})
        \/ LockGranted(t)
        \/ Finish(t)

Spec == Init /\ [][Next]_vars

\* Each call is awaited before the next one is made.  A call reads
\* the clock once (set and clean when called, get after its await), so time
\* passing during a call is time passing before or after it.
NextSerial ==
    \/ Quiet /\ Tick
    \/ \E t \in 1..NCalls :
        \/ Quiet /\ Issue(t, TTLs, BOOLEAN, Cutoffs, {"int", "function"}, Defaults)
        \/ Quiet /\ \E m \in Messages(t) : WrapperCall(t, m)
        \/ Work(t, BOOLEAN)
        \/ Finish(t)

SpecSerial == Init /\ [][NextSerial]_vars

\* A caller that awaits, one after the other, sets and gets on the entries
\* of one store file while time passes.
NextOrdered ==
    \/ Quiet /\ Tick
    \/ \E t \in Tasks :
        \/ Quiet /\ \E k \in Keys, ttl \in TTLs : SetCall(t, "/tmp/a.dbm", k, ttl, PyInt(t))
        \/ Quiet /\ \E k \in Keys : GetCall(t, "/tmp/a.dbm", k, FALSE, PyNone)
        \/ \E busy \in BOOLEAN : ReadValue(t, busy) \/ WriteValue(t, busy, FALSE)
        \/ GetFinish(t)
        \/ WriteFinish(t)

SpecOrdered == Init /\ [][NextOrdered]_vars

\* ------------------------------------------------------------ claims
Issued(t) == call[t].pc # "idle"
Done(t)   == call[t].pc = "done"
\* between entering and leaving `with _WRITE_LOCK`
InSection(t) == IsWriter(t) /\ call[t].pc \in {"submitted", "returned"}
\* in flight: issued, result not yet delivered
InFlight(t) == call[t].pc \in {"lockwait", "submitted", "returned"}
Succeeded(t) == Done(t) /\ call[t].res.kind = "return"
SameEntry(t, u) == call[t].path = call[u].path /\ call[t].key = call[u].key
\* the object stored under task t's key, for a key that is stored
Stored(t) == pickle_loads(store[call[t].path].data[call[t].key])
HasKey(t) == call[t].key \in DOMAIN store[call[t].path].data
\* get g read the store right after set s wrote it
ReadsAfter(g, s) ==
    /\ call[g].op = "get" /\ Done(g) /\ call[g].werr = ""
    /\ call[s].op = "set" /\ Done(s) /\ call[s].werr = ""
    /\ SameEntry(g, s)
    /\ call[g].seen >= 1
    /\ hist[call[g].seen] = s
\* the expiry recorded in the bytes a get read (0: none recorded)
RawExp(g) ==
    LET o == pickle_loads(call[g].raw) IN
    IF o.ty = "dict" /\ "exp" \in DOMAIN o.f THEN o.f["exp"] ELSE 0
\* the value a hit on those bytes yields
RawValue(g) ==
    LET o == pickle_loads(call[g].raw) IN
    IF "v" \in DOMAIN o.f THEN PyInt(o.f["v"]) ELSE o

\* C1: two or more sets to distinct keys made concurrently on one event loop
\* all complete, and each key then holds the value that was set: while one
\* of them is unfinished, one of them can take a step.
C1_ConcurrentSetsComplete ==
    \A l \in Loops :
        LET S == {t \in Tasks : Issued(t) /\ call[t].op = "set" /\ call[t].loop = l} IN
        ( /\ Cardinality(S) >= 2
          /\ \A t, u \in S : t # u => ~SameEntry(t, u)
          /\ \A t \in S : call[t].werr = ""
          /\ \A t \in Tasks \ S : ~InFlight(t) /\ \A u \in S : ~SameEntry(t, u) )
        => \/ \E t \in S : ENABLED (Work(t, {FALSE}) \/ LockGranted(t) \/ Finish(t))
           \/ \A t \in S : Succeeded(t) /\ HasKey(t) /\ Stored(t) = set_payload(call[t].t0, call[t].ttl, t)

\* C2: at most one set or clean call is between taking and releasing the
\* write lock, whatever paths the calls name.
C2_OneWriterInSection ==
    Cardinality({t \in Tasks : InSection(t)}) <= 1

C2_Witness ==
    \E t, u \in Tasks :
        /\ InSection(t) /\ call[t].pc = "submitted"
        /\ IsWriter(u) /\ call[u].pc = "lockwait"
        /\ call[t].path # call[u].path

\* C3: while a get or list is in flight, the thread of its event loop is
\* never blocked waiting for the write lock.
C3_ReaderLoopNeverBlocked ==
    \A g \in Tasks :
        (IsReader(g) /\ call[g].pc \in {"submitted", "returned"}) => LoopRuns(call[g].loop)

\* C4: a get that reads an entry right after a successful set with ttl > 0
\* wrote it, and that tests the expiry at the clock value the set read,
\* returns the value that was set.
C4_SetThenGet ==
    \A s, g \in Tasks :
        (ReadsAfter(g, s) /\ call[s].ttl > 0 /\ call[g].t0 = call[s].t0)
        => call[g].res = Return(PyInt(s))

C4_Witness ==
    \E s, g \in Tasks :
        /\ ReadsAfter(g, s) /\ call[s].ttl > 0 /\ call[g].t0 = call[s].t0
        /\ call[g].res = Return(PyInt(s))

\* C5: a get with raise_on_miss false that reads an entry with a non-zero
\* expiry returns the default when its clock is at or past the expiry and
\* the stored value when its clock is before the expiry.
C5_ExpiryDecidesHit ==
    \A g \in Tasks :
        ( /\ call[g].op = "get" /\ Done(g) /\ ~call[g].raise
          /\ call[g].werr = "" /\ call[g].raw # <<>> /\ RawExp(g) # 0 )
        => /\ call[g].t0 >= RawExp(g) => call[g].res = Return(call[g].dflt)
           /\ call[g].t0 < RawExp(g) => call[g].res = Return(RawValue(g))

C5_Witness ==
    \E g, h \in Tasks :
        /\ call[g].op = "get" /\ Done(g) /\ ~call[g].raise /\ call[g].raw # <<>>
        /\ RawExp(g) # 0 /\ call[g].t0 >= RawExp(g) /\ call[g].res = Return(call[g].dflt)
        /\ call[h].op = "get" /\ Done(h) /\ ~call[h].raise /\ call[h].raw # <<>>
        /\ RawExp(h) # 0 /\ call[h].t0 < RawExp(h) /\ call[h].res = Return(RawValue(h))

\* C6: a get with raise_on_miss true raises CacheKeyNotFoundError on every
\* miss: no store file, no entry for the key, or an expired entry.
C6_StrictMissRaises ==
    \A g \in Tasks :
        ( /\ call[g].op = "get" /\ Done(g) /\ call[g].raise /\ call[g].werr = ""
          /\ \/ call[g].raw = <<>>
             \/ RawExp(g) # 0 /\ call[g].t0 >= RawExp(g) )
        => call[g].res = Raise("CacheKeyNotFoundError")

\* C7: a successful set with expiry_secs <= 0 stores expiry 0, and a get
\* that reads the entry afterwards returns the value at any clock value.
C7_NonPositiveTtlNeverExpires ==
    \A s \in Tasks :
        (call[s].op = "set" /\ Succeeded(s) /\ call[s].ttl <= 0)
        => /\ (hist # <<>> /\ hist[Len(hist)] = s) => (HasKey(s) /\ Stored(s).f["exp"] = 0)
           /\ \A g \in Tasks : ReadsAfter(g, s) => call[g].res = Return(PyInt(s))

\* the keys of d that a sweep with the given cutoff has to remove
StaleKeys(d, cutoff) ==
    {k \in DOMAIN d :
        LET o == pickle_loads(d[k]) IN
        o.ty = "dict" /\ "exp" \in DOMAIN o.f /\ o.f["exp"] # 0 /\ cutoff > o.f["exp"]}

\* task t's worker ran clean_db to the end in this step
CleanRan(t) ==
    /\ call[t].op = "clean" /\ call[t].pc = "submitted"
    /\ call'[t].pc = "returned" /\ call'[t].werr = ""

\* C8: one clean that runs to the end removes exactly the stale keys
\* (expiry non-zero and below the cutoff) and leaves every other key with
\* its payload; a list then walks exactly the keys that are stored.
C8_CleanRemovesExactlyStale ==
    [][ /\ \A t \in Tasks : CleanRan(t) =>
              LET d == store[call[t].path].data IN
              store' = [store EXCEPT ![call[t].path] =
                  File([k \in (DOMAIN d) \ StaleKeys(d, call[t].cutoff) |-> d[k]])]
        /\ \A t \in Tasks :
              (call[t].op = "list" /\ call[t].pc = "submitted" /\ call'[t].werr = ""
               /\ call'[t].pc = "returned")
              => {call'[t].out[i] : i \in 1..Len(call'[t].out)} = DOMAIN store[call[t].path].data
      ]_vars

\* C9: a clean that runs right after a clean of the same path with the same
\* cutoff changes nothing and raises nothing.
C9_CleanIdempotent ==
    [][ \A t \in Tasks :
          ( /\ call[t].op = "clean" /\ call[t].pc = "submitted" /\ call'[t].pc = "returned"
            /\ call'[t].werr # "gdbm.error"
            /\ hist # <<>>
            /\ LET c == hist[Len(hist)] IN
                 /\ call[c].op = "clean" /\ Succeeded(c)
                 /\ call[c].path = call[t].path /\ call[c].cutoff = call[t].cutoff )
          => (store' = store /\ call'[t].werr = "")
      ]_vars

\* C10: no step of a get or list call changes any store file or the holder
\* of the write lock.
C10_ReadsChangeNothing ==
    [][ \A t \in Tasks :
          (call'[t] # call[t] /\ call'[t].op \in {"get", "list"})
          => (store' = store /\ lock' = lock)
      ]_vars

C10_Witness ==
    \E g, l \in Tasks :
        /\ call[g].op = "get" /\ Done(g) /\ call[g].raw # <<>>
        /\ RawExp(g) # 0 /\ call[g].t0 >= RawExp(g)
        /\ call[l].op = "list" /\ Done(l) /\ call[l].res.kind # "return"

\* C11: in every state where no set or clean call is in progress the write
\* lock is free, whether the calls that ended returned or failed (store
\* open, put, payload decode during the sweep, compaction); the lock is
\* only ever held by a set or clean that is inside its `with` block.
C11_LockFreeWhenNoWriter ==
    /\ (\A t \in Tasks : ~(IsWriter(t) /\ InFlight(t))) => lock = NoTask
    /\ lock # NoTask => InSection(lock)

\* a writer that failed in its worker has ended and a later writer has
\* taken the lock
C11_Witness ==
    \E t, u \in Tasks :
        /\ IsWriter(t) /\ Done(t) /\ call[t].werr # ""
        /\ IsWriter(u) /\ call[u].pc = "submitted" /\ lock = u

\* task t calls set() in this step with a value the encoder raises on
EncodingFails(t) ==
    call[t].pc = "idle" /\ call'[t].op = "set" /\ call'[t].ser = <<>>

\* C12: a set whose payload cannot be encoded ends at once with CacheError;
\* the step changes no store file (existence and key-to-payload mapping)
\* and neither takes the write lock nor waits for it.
C12_EncodingFailureWritesNothing ==
    [][ \A t \in Tasks :
          EncodingFails(t)
          => /\ call'[t].pc = "done" /\ call'[t].res = Raise("CacheError")
             /\ store' = store
             /\ lock' = lock /\ blocked' = blocked /\ hist' = hist
      ]_vars

\* a set that failed to encode, on a path that has no store file
C12_Witness ==
    \E t \in Tasks :
        /\ call[t].op = "set" /\ Done(t) /\ call[t].ser = <<>>
        /\ call[t].res = Raise("CacheError")
        /\ ~store[call[t].path].exists
        /\ lock = NoTask

\* C13: a set whose worker met an engine failure, in opening the store as
\* well as in the put, ends with CacheError and with no other error, and a
\* set that returns met no failure.
C13_EngineFailureIsCacheError ==
    \A s \in Tasks :
        (call[s].op = "set" /\ Done(s))
        => /\ call[s].werr # "" => call[s].res = Raise("CacheError")
           /\ call[s].res.kind = "return" => call[s].werr = ""

\* the get g, whose worker met no engine failure, ended in a miss: no
\* store file or no entry for the key (nothing read), or an expired entry
Missed(g) ==
    /\ call[g].op = "get" /\ Done(g) /\ call[g].werr = ""
    /\ \/ call[g].raw = <<>>
       \/ RawExp(g) # 0 /\ call[g].t0 >= RawExp(g)

\* C14: a get with raise_on_miss false that misses (no store file, no
\* entry, expired entry) returns exactly the default it was given, and no
\* get with raise_on_miss false ends with CacheKeyNotFoundError.
C14_LenientMissReturnsDefault ==
    \A g \in Tasks :
        /\ (Missed(g) /\ ~call[g].raise) => call[g].res = Return(call[g].dflt)
        /\ (call[g].op = "get" /\ Done(g) /\ call[g].res = Raise("CacheKeyNotFoundError"))
           => call[g].raise

\* a get on an expired entry that returned a default other than None
C14_Witness ==
    \E g \in Tasks :
        /\ Missed(g) /\ ~call[g].raise /\ call[g].raw # <<>>
        /\ call[g].dflt = PyInt(0) /\ call[g].res = Return(PyInt(0))

\* C15: a get or list on a path with no store file completes without an
\* engine error (the get reports a miss, the list enumerates nothing) and
\* its worker leaves the file absent.
C15_AbsentFileIsMiss ==
    [][ \A t \in Tasks :
          ( /\ IsReader(t) /\ call[t].pc = "submitted" /\ call'[t].pc = "returned"
            /\ ~store[call[t].path].exists )
          => /\ call'[t].werr = "" /\ call'[t].raw = <<>> /\ call'[t].out = <<>>
             /\ ~store'[call[t].path].exists
      ]_vars

\* the worker of a clean call on path p runs in this step
CleanSweeps(p) ==
    \E t \in Tasks :
        /\ call[t].op = "clean" /\ call[t].path = p
        /\ call[t].pc = "submitted" /\ call'[t].pc = "returned"

\* C16: a stored key stays in its store file, and the file stays on disk,
\* through every step that is not the sweep of a clean call on that file:
\* no get, list or set and no passing of time removes a key.
C16_OnlyCleanRemoves ==
    [][ \A p \in Paths :
          /\ store[p].exists => store'[p].exists
          /\ \A k \in DOMAIN store[p].data :
                k \notin DOMAIN store'[p].data => CleanSweeps(p)
      ]_vars

\* an entry written by a set is still stored after its expiry time has
\* come and a get has found it expired
C16_Witness ==
    \E s, g \in Tasks :
        /\ ReadsAfter(g, s) /\ Missed(g) /\ call[g].raw # <<>>
        /\ now > call[s].t0 + call[s].ttl
        /\ HasKey(s) /\ store[call[s].path].data[call[s].key] = call[s].ser

\* the request lacks filename, key or value, or its filename contains one
\* of the characters '/', '\\', '.'
Rejected(m) ==
    \/ {"filename", "key", "value"} \ m.has # {}
    \/ \E i \in 1..Len(m.filename) : m.filename[i] \in {"/", "\\", "."}

\* the request's expiry_secs is present and int() raises on it
BadExpiry(m) == "expiry_secs" \in m.has /\ m.expiry_secs.ty # "int"

\* the characters of a filename written out as the path set.py derives
RECURSIVE Spell(_)
Spell(cs) == IF Len(cs) = 0 THEN ".dbm" ELSE cs[1] \o Spell(SubSeq(cs, 2, Len(cs)))

\* cache.set was invoked for the call c, on the path and key of request m
InvokedSet(c, m) ==
    c.op = "set" /\ c.path = "/tmp/" \o Spell(m.filename) /\ c.key = m.key

\* C17: a set.py call whose request lacks filename, key or value, or whose
\* filename contains '/', '\\' or '.', fails with an error, never invokes
\* cache.set and changes no store file; every other set.py call invokes
\* cache.set on the path derived from filename and returns the request's
\* value.
C17_WrapperValidatesThenSets ==
    [][ \A t \in Tasks :
          LET c == call'[t]  m == call'[t].msg IN
          m # NoMsg =>
            IF Rejected(m)
            THEN /\ c.op = "none" /\ c.pc = "done" /\ c.res.kind \notin {"return", "pending"}
                 /\ call[t].pc = "idle" => store' = store
            ELSE /\ InvokedSet(c, m)
                 /\ c.pc = "done" => c.res = Return(m.value)
      ]_vars

\* C17 as amended: a request whose expiry_secs int() cannot convert is
\* rejected like the others, before cache.set; an accepted request
\* invokes cache.set on the derived path and key, and the call returns the
\* request's value when cache.set returns and fails with cache.set's error
\* when it raises.
C17_WrapperValidatesThenSets_Amended ==
    [][ \A t \in Tasks :
          LET c == call'[t]  m == call'[t].msg IN
          m # NoMsg =>
            IF Rejected(m) \/ BadExpiry(m)
            THEN /\ c.op = "none" /\ c.pc = "done" /\ c.res.kind \notin {"return", "pending"}
                 /\ call[t].pc = "idle" => store' = store
            ELSE /\ InvokedSet(c, m)
                 /\ c.pc = "done" =>
                      c.res = IF c.werr = "" THEN Return(m.value) ELSE Raise(c.werr)
      ]_vars

\* a request with a bad filename was rejected, and an accepted request
\* stored its value in a new file /tmp/b.dbm and returned it
C17_Witness ==
    \E t, u \in Tasks :
        /\ call[t].msg # NoMsg /\ Done(t) /\ call[t].op = "none"
        /\ {"filename", "key", "value"} \subseteq call[t].msg.has
        /\ call[u].msg # NoMsg /\ Done(u) /\ call[u].path = "/tmp/b.dbm"
        /\ call[u].res = Return(PyInt(u))
        /\ hist = <<u>> /\ HasKey(u) /\ Stored(u).f["v"] = u

\* sets s1 and s2 wrote the same entry, s1 before s2, both have returned
\* and nothing was written after s2
WroteInOrder(s1, s2) ==
    /\ call[s1].op = "set" /\ Succeeded(s1)
    /\ call[s2].op = "set" /\ Succeeded(s2)
    /\ s1 # s2 /\ SameEntry(s1, s2)
    /\ \E i, j \in 1..Len(hist) : i < j /\ hist[i] = s1 /\ hist[j] = s2 /\ j = Len(hist)

\* C18: after two sets to one key that completed one after the other the
\* entry holds the payload of the second (its value and its expiry), and
\* a get that follows returns the second value while that expiry has not
\* come.
C18_LastSetWins ==
    \A s1, s2 \in Tasks :
        WroteInOrder(s1, s2)
        => /\ HasKey(s2)
           /\ Stored(s2) = PyDict([a \in {"exp", "v"} |->
                              IF a = "exp" THEN call[s2].t0 + call[s2].ttl ELSE s2])
           /\ \A g \in Tasks :
                (ReadsAfter(g, s2) /\ call[g].t0 < call[s2].t0 + call[s2].ttl)
                => call[g].res = Return(PyInt(s2))

\* the second set changed the expiry, and the get that followed returned
\* its value at a time the first set's entry had expired
C18_Witness ==
    \E s1, s2, g \in Tasks :
        /\ WroteInOrder(s1, s2) /\ ReadsAfter(g, s2)
        /\ call[s1].t0 + call[s1].ttl <= call[g].t0
        /\ call[g].t0 < call[s2].t0 + call[s2].ttl
        /\ call[g].res = Return(PyInt(s2))

\* the bytes get g read decode to an object with no "v" item (an object of
\* the older format), which has not expired
ReadLegacy(g) ==
    /\ call[g].op = "get" /\ Done(g) /\ call[g].werr = "" /\ call[g].raw # <<>>
    /\ LET o == pickle_loads(call[g].raw) IN
         ~(o.ty = "dict" /\ "v" \in DOMAIN o.f)
    /\ (RawExp(g) = 0 \/ call[g].t0 < RawExp(g))

\* C19: a get that reads a stored, non-expired object with no value
\* wrapper returns the whole decoded object, whatever its type.
C19_LegacyPayloadReturnedWhole ==
    \A g \in Tasks :
        ReadLegacy(g) => call[g].res = Return(pickle_loads(call[g].raw))

\* the entries of file p other than key k
Others(f, p, k) ==
    [x \in (DOMAIN f[p].data) \ (IF p = k[1] THEN {k[2]} ELSE {}) |-> f[p].data[x]]

\* C20: a step of a set call on (path, k), whether the call goes on to
\* succeed or to fail, leaves every other key of that file with its bytes,
\* adds no other key, and leaves every other file as it is.
C20_SetTouchesOnlyItsKey ==
    [][ \A t \in Tasks :
          (call'[t] # call[t] /\ call'[t].op = "set")
          => \A p \in Paths :
                /\ Others(store', p, <<call'[t].path, call'[t].key>>)
                     = Others(store, p, <<call'[t].path, call'[t].key>>)
                /\ p # call'[t].path => store'[p] = store[p]
      ]_vars

\* one set has failed in the engine and another has written its key into a
\* file that holds a second key
C20_Witness ==
    \E s, u \in Tasks :
        /\ call[s].op = "set" /\ Done(s) /\ call[s].werr # ""
        /\ call[u].op = "set" /\ Succeeded(u) /\ hist = <<u>> /\ HasKey(u)
        /\ DOMAIN store[call[u].path].data # {call[u].key}

=============================================================================
